---- MODULE Spec2Model ----
(***************************************************************************)
(* Model of the subfilter response-rewriting middleware (subfilter.go).   *)
(*                                                                         *)
(* One middleware instance is built by New from a Config and then serves   *)
(* one request: ServeHTTP wraps the real sink w in a responseWriter rw,    *)
(* runs the downstream handler against rw (the handler's calls are the     *)
(* Handler* actions), and after the handler returns classifies the         *)
(* Content-Encoding, decodes, applies the filter chain and writes to w.    *)
(*                                                                         *)
(* Bytes are strings; a body is a sequence of bytes.  The real sink is an  *)
(* http.ResponseWriter with the behaviour of net/http: the first           *)
(* WriteHeader (explicit, or implied by Write or Flush) snapshots the      *)
(* header map, later header changes do not reach the client, and after a   *)
(* successful Hijack WriteHeader is ignored and Write fails.               *)
(***************************************************************************)
EXTENDS Integers, Sequences, FiniteSets, TLC

\* ---------------------------------------------------------------- bounds
MaxOps == 3        \* calls the downstream handler makes on the capture writer
MaxFilters == 2    \* length of config.Filters in the configurations of SpecNew
NumRequests == 2   \* requests one instance serves concurrently in SpecConc

\* ----------------------------------------------------------------- bytes
RECURSIVE SeqsUpTo(_, _)
SeqsUpTo(S, n) ==
    IF n = 0 THEN {<<>>}
    ELSE LET shorter == SeqsUpTo(S, n - 1)
         IN  shorter \cup {Append(q, x) : q \in shorter, x \in S}

RECURSIVE Reverse(_)
Reverse(q) == IF q = <<>> THEN <<>> ELSE Append(Reverse(Tail(q)), Head(q))

RECURSIVE Concat(_)
Concat(qs) == IF qs = <<>> THEN <<>> ELSE Head(qs) \o Concat(Tail(qs))

\* ------------------------------------------------------------------ gzip
\* A gzip member is a header, the deflated payload and a trailer holding the
\* size of the plaintext.  Deflate is modelled by reversal (an encoding that
\* is not the identity), the header by the magic byte "gz", the trailer by
\* one byte naming the plaintext length modulo 4.  A stream is one member:
\* bytes after the trailer make the read fail.
GzipMagic == "gz"

ISize(p) == <<"n0", "n1", "n2", "n3">>[(Len(p) % 4) + 1]

GzipEncode(p) == <<GzipMagic>> \o Reverse(p) \o <<ISize(p)>>

\* gzip.NewReader reads the header and fails when it is missing or wrong.
GzipNewReaderOK(buf) == Len(buf) >= 1 /\ buf[1] = GzipMagic

GzipPayload(buf) == Reverse(SubSeq(buf, 2, Len(buf) - 1))

\* ioutil.ReadAll(gr) fails on a truncated stream or a trailer mismatch.
GzipReadAllOK(buf) ==
    /\ Len(buf) >= 2
    /\ buf[Len(buf)] = ISize(GzipPayload(buf))

\* gr.Close() after a ReadAll that reached EOF reports no error.
GzipCloseOK(buf) == TRUE

GzipDecodeOK(buf) == GzipNewReaderOK(buf) /\ GzipReadAllOK(buf) /\ GzipCloseOK(buf)

\* ---------------------------------------------------------------- regexp
\* Patterns are literal byte strings; the pattern "*" (a repetition operator
\* with no argument) is the one that regexp.Compile rejects.
BadPattern == <<"*">>

RegexpCompileOK(pattern) == pattern = <<>> \/ pattern[1] # "*"

\* regexp.ReplaceAll for a literal pattern: leftmost, non-overlapping matches,
\* scanning from position i.  The empty pattern matches before every byte and
\* at the end.
RECURSIVE ReplaceAllFrom(_, _, _, _)
ReplaceAllFrom(pattern, repl, b, i) ==
    IF pattern = <<>>
    THEN IF i > Len(b) THEN repl
         ELSE repl \o <<b[i]>> \o ReplaceAllFrom(pattern, repl, b, i + 1)
    ELSE IF i + Len(pattern) - 1 > Len(b) THEN SubSeq(b, i, Len(b))
    ELSE IF SubSeq(b, i, i + Len(pattern) - 1) = pattern
         THEN repl \o ReplaceAllFrom(pattern, repl, b, i + Len(pattern))
         ELSE <<b[i]>> \o ReplaceAllFrom(pattern, repl, b, i + 1)

ReplaceAll(f, b) == ReplaceAllFrom(f.regex, f.replacement, b, 1)

Matches(pattern, b) ==
    \E i \in 1..(Len(b) + 1) :
        /\ i + Len(pattern) - 1 <= Len(b)
        /\ SubSeq(b, i, i + Len(pattern) - 1) = pattern

\* ------------------------------------------------------------------- New
\* The filter specs a configuration may hold.
FooBar == [Regex |-> <<"a">>, Replacement |-> <<"b">>]
BarFoo == [Regex |-> <<"b">>, Replacement |-> <<"a">>]
CutAB  == [Regex |-> <<"a", "b">>, Replacement |-> <<>>]
BadOne == [Regex |-> BadPattern, Replacement |-> <<"b">>]
BadTwo == [Regex |-> BadPattern, Replacement |-> <<"a">>]

FilterSpecs == {FooBar, BarFoo, CutAB, BadOne, BadTwo}

\* Every configuration up to MaxFilters filters: the inputs of New.
Configs ==
    { [LastModified |-> lm, Filters |-> fs] :
        lm \in BOOLEAN, fs \in SeqsUpTo(FilterSpecs, MaxFilters) }

\* The configurations requests are served under.
ServeFilters ==
    { <<FooBar>>, <<FooBar, BarFoo>>, <<CutAB>>, <<BadOne, BarFoo>>, <<BadOne>> }

ServeConfigs ==
    { [LastModified |-> lm, Filters |-> fs] :
        lm \in BOOLEAN, fs \in ServeFilters }

\* A loop that stops at the first spec that fails to compile.
RECURSIVE CompileFiltersStopsAtBad(_)
CompileFiltersStopsAtBad(specs) ==
    IF specs = <<>> THEN <<>>
    ELSE LET f == Head(specs)
         IN  IF ~RegexpCompileOK(f.Regex) THEN <<>>
             ELSE <<[regex |-> f.Regex, replacement |-> f.Replacement]>>
                      \o CompileFiltersStopsAtBad(Tail(specs))

\* The loop of New: compile each spec in order, skip the ones that fail.
RECURSIVE CompileFilters(_)
CompileFilters(specs) ==
    IF specs = <<>> THEN <<>>
    ELSE LET f == Head(specs)
         IN  IF ~RegexpCompileOK(f.Regex)
             THEN CompileFilters(Tail(specs))
             ELSE <<[regex |-> f.Regex, replacement |-> f.Replacement]>>
                      \o CompileFilters(Tail(specs))

NoHandler == [filters |-> <<>>, lastModified |-> FALSE]

\* New(ctx, next, config, name): the pair (handler, err).
NewResult(cfg) ==
    LET filters == CompileFilters(cfg.Filters)
    IN  IF Len(filters) = 0
        THEN [sf |-> NoHandler, err |-> "no valid filters. disabling"]
        ELSE [sf |-> [filters |-> filters, lastModified |-> cfg.LastModified],
              err |-> "nil"]

\* ------------------------------------------------------------- real sink
HeaderNames == {"Content-Encoding", "Content-Length", "Last-Modified"}

Absent == "<absent>"

\* The values the downstream handler may give a header.
HeaderValues(name) ==
    IF name = "Content-Encoding" THEN {"identity", "gzip", "br"}
    ELSE IF name = "Content-Length" THEN {"2"}
    ELSE {"Thu, 02 Jun 2016 06:01:08 GMT"}

EmptyHeader == [n \in HeaderNames |-> Absent]

\* http.Header.Get: the value, or "" when the header is not set.
HeaderGet(h, name) == IF h[name] = Absent THEN "" ELSE h[name]

HeaderDel(h, name) == [h EXCEPT ![name] = Absent]

StatusOK == 200
StatusNotFound == 404
NoStatus == 0

\* The sink w as ServeHTTP receives it.  header is the live header map
\* (w.Header()), committed the snapshot the client gets, body the bytes
\* passed to w.Write so far.
NewSink(canHijack, canFlush) ==
    [ canHijack |-> canHijack, canFlush |-> canFlush,
      header |-> EmptyHeader,
      wroteHeader |-> FALSE, status |-> NoStatus, committed |-> EmptyHeader,
      body |-> <<>>, writeCalls |-> 0, writeHeaderCalls |-> 0,
      writeErr |-> FALSE, hijacked |-> FALSE ]

\* w.WriteHeader(code): the first call on a live connection commits the
\* status and the headers as they stand; any other call changes nothing.
SinkCommit(w, code) ==
    IF w.wroteHeader \/ w.hijacked THEN w
    ELSE [w EXCEPT !.wroteHeader = TRUE, !.status = code, !.committed = w.header]

SinkWriteHeader(w, code) ==
    [SinkCommit(w, code) EXCEPT !.writeHeaderCalls = w.writeHeaderCalls + 1]

\* w.Write(p): commits 200 when nothing was committed, then takes the bytes;
\* on a hijacked connection it fails (http.ErrHijacked).
SinkWrite(w, p) ==
    LET c == SinkCommit(w, StatusOK)
    IN  [c EXCEPT !.body = w.body \o p,
                  !.writeCalls = w.writeCalls + 1,
                  !.writeErr = w.writeErr \/ w.hijacked]

\* w.(http.Flusher).Flush(): sends the header when it was not sent yet.
SinkFlush(w) == SinkCommit(w, StatusOK)

\* w.(http.Hijacker).Hijack(): succeeds once.
SinkHijack(w) ==
    IF w.hijacked THEN [w |-> w, err |-> "http: connection has been hijacked"]
    ELSE [w |-> [w EXCEPT !.hijacked = TRUE], err |-> "nil"]

\* -------------------------------------------------------- responseWriter
\* rw := &responseWriter{lastModified: s.lastModified, ResponseWriter: w}
NewResponseWriter(lastModified) ==
    [ buffer |-> <<>>, lastModified |-> lastModified,
      wroteHeader |-> FALSE, encoding |-> "" ]

\* The methods take the capture writer rw and the sink w it embeds and give
\* the pair after the call (and, for Hijack, the error returned).

\* func (r *responseWriter) WriteHeader(statusCode int)
WriteHeader(rw, w, statusCode) ==
    LET h1 == IF ~rw.lastModified THEN HeaderDel(w.header, "Last-Modified")
              ELSE w.header
        h2 == HeaderDel(h1, "Content-Length")
    IN  [ rw |-> [rw EXCEPT !.wroteHeader = TRUE],
          w  |-> SinkWriteHeader([w EXCEPT !.header = h2], statusCode) ]

\* A Write that never commits the header itself.
WriteNoImplicitHeader(rw, w, p) ==
    [ rw |-> [rw EXCEPT !.buffer = rw.buffer \o p], w |-> w ]

\* A Write that also streams the bytes to the real sink.
WriteStreams(rw, w, p) ==
    LET s1 == IF ~rw.wroteHeader THEN WriteHeader(rw, w, StatusOK)
              ELSE [rw |-> rw, w |-> w]
    IN  [ rw |-> [s1.rw EXCEPT !.buffer = s1.rw.buffer \o p],
          w  |-> SinkWrite(s1.w, p) ]

\* func (r *responseWriter) Write(p []byte) (int, error)
Write(rw, w, p) ==
    LET s1 == IF ~rw.wroteHeader THEN WriteHeader(rw, w, StatusOK)
              ELSE [rw |-> rw, w |-> w]
    IN  [ rw |-> [s1.rw EXCEPT !.buffer = s1.rw.buffer \o p], w |-> s1.w ]

NotHijackerErr == "is not a http.Hijacker"

\* A Hijack that reports the missing capability but marks the response as
\* written on the way.
HijackTouchesState(rw, w) ==
    IF ~w.canHijack
    THEN [rw |-> [rw EXCEPT !.wroteHeader = TRUE], w |-> w, err |-> NotHijackerErr]
    ELSE LET h == SinkHijack(w) IN [rw |-> rw, w |-> h.w, err |-> h.err]

\* func (r *responseWriter) Hijack() (net.Conn, *bufio.ReadWriter, error)
Hijack(rw, w) ==
    IF ~w.canHijack THEN [rw |-> rw, w |-> w, err |-> NotHijackerErr]
    ELSE LET h == SinkHijack(w) IN [rw |-> rw, w |-> h.w, err |-> h.err]

\* func (r *responseWriter) Flush()
Flush(rw, w) ==
    IF w.canFlush THEN [rw |-> rw, w |-> SinkFlush(w)]
    ELSE [rw |-> rw, w |-> w]

\* ------------------------------------------------------------- ServeHTTP
contentEncodingGzip == "gzip"

\* A filter loop that runs the chain from its last filter to its first.
RECURSIVE ApplyFiltersReversed(_, _)
ApplyFiltersReversed(filters, b) ==
    IF filters = <<>> THEN b
    ELSE ReplaceAll(Head(filters), ApplyFiltersReversed(Tail(filters), b))

\* for _, f := range s.filters { b = f.regex.ReplaceAll(b, f.replacement) }
RECURSIVE ApplyFilters(_, _)
ApplyFilters(filters, b) ==
    IF filters = <<>> THEN b
    ELSE ApplyFilters(Tail(filters), ReplaceAll(Head(filters), b))

\* The three arms of the switch on ce give ServeHTTP's state at its return.
\* filtersRun tells whether the filter loop was reached.

\* An identity arm that writes the body again when the write failed.
ServeIdentityRetries(sf, rw, w) ==
    LET b     == ApplyFilters(sf.filters, rw.buffer)
        first == SinkWrite(w, b)
    IN  [ rw |-> rw, filtersRun |-> TRUE,
          w |-> IF first.writeErr THEN SinkWrite(first, b) ELSE first ]

\* An identity arm that skips the write when there is nothing to write.
ServeIdentitySkipsEmpty(sf, rw, w) ==
    LET b == ApplyFilters(sf.filters, rw.buffer)
    IN  [ rw |-> rw, filtersRun |-> TRUE,
          w |-> IF Len(b) > 0 THEN SinkWrite(w, b) ELSE w ]

\* case "", "identity": b = rw.buffer.Bytes(); filter loop; w.Write(b)
ServeIdentity(sf, rw, w) ==
    [ rw |-> rw, filtersRun |-> TRUE,
      w |-> SinkWrite(w, ApplyFilters(sf.filters, rw.buffer)) ]

\* A gzip arm that drops the Content-Encoding header once it has decoded.
ServeGzipDropsEncoding(sf, rw, w) ==
    IF ~GzipDecodeOK(rw.buffer) THEN [rw |-> rw, filtersRun |-> FALSE, w |-> w]
    ELSE [ rw |-> [rw EXCEPT !.encoding = contentEncodingGzip],
           filtersRun |-> TRUE,
           w |-> SinkWrite([w EXCEPT !.header = HeaderDel(w.header, "Content-Encoding")],
                           ApplyFilters(sf.filters, GzipPayload(rw.buffer))) ]

\* A gzip arm that does not return when ReadAll fails and goes on with the
\* bytes read so far.
ServeGzipIgnoresReadErr(sf, rw, w) ==
    IF ~GzipNewReaderOK(rw.buffer) THEN [rw |-> rw, filtersRun |-> FALSE, w |-> w]
    ELSE [ rw |-> [rw EXCEPT !.encoding = contentEncodingGzip],
           filtersRun |-> TRUE,
           w |-> SinkWrite(w, ApplyFilters(sf.filters, GzipPayload(rw.buffer))) ]

\* case contentEncodingGzip: NewReader, ReadAll, Close, each returning on
\* error; then rw.encoding = "gzip"; filter loop; w.Write(b)
ServeGzip(sf, rw, w) ==
    IF ~GzipNewReaderOK(rw.buffer) THEN [rw |-> rw, filtersRun |-> FALSE, w |-> w]
    ELSE IF ~GzipReadAllOK(rw.buffer) THEN [rw |-> rw, filtersRun |-> FALSE, w |-> w]
    ELSE IF ~GzipCloseOK(rw.buffer) THEN [rw |-> rw, filtersRun |-> FALSE, w |-> w]
    ELSE [ rw |-> [rw EXCEPT !.encoding = contentEncodingGzip],
           filtersRun |-> TRUE,
           w |-> SinkWrite(w, ApplyFilters(sf.filters, GzipPayload(rw.buffer))) ]

\* A default arm without its return: it falls into the filter loop.
ServePassthroughFallsThrough(sf, rw, w) ==
    [ rw |-> rw, filtersRun |-> TRUE,
      w |-> SinkWrite(w, ApplyFilters(sf.filters, rw.buffer)) ]

\* default: io.Copy(w, &rw.buffer); return.  bytes.Buffer.WriteTo calls
\* w.Write only when the buffer holds bytes.
ServePassthrough(sf, rw, w) ==
    [ rw |-> rw, filtersRun |-> FALSE,
      w |-> IF Len(rw.buffer) > 0 THEN SinkWrite(w, rw.buffer) ELSE w ]

\* ServeHTTP from the return of s.next.ServeHTTP(rw, r) to its own return.
ServeHTTPAfterNext(sf, rw, w) ==
    LET ce == HeaderGet(w.header, "Content-Encoding")
    IN  IF ce \in {"", "identity"} THEN ServeIdentity(sf, rw, w)
        ELSE IF ce = contentEncodingGzip THEN ServeGzip(sf, rw, w)
        ELSE ServePassthrough(sf, rw, w)

\* ----------------------------------------------------------------- state
VARIABLES
    pc,             \* "new", "failed", "installed", "handler", "done"
    config,         \* the Config given to New
    sf,             \* the subfilter New returned (NoHandler before / on error)
    newErr,         \* the error New returned
    rw,             \* the request's responseWriter
    w,              \* the real sink of the request
    handlerWrites,  \* the byte slices the handler passed to rw.Write, in order
    ops,            \* calls the handler has made on rw
    hijackErr,      \* the error of the handler's last rw.Hijack()
    hijackCalls,    \* calls of rw.Hijack() the handler has made
    handlerSet,     \* headers the handler set on a response not yet committed
    handlerHeader,  \* each header as the handler last set it
    firstStatus,    \* the status of the handler's first WriteHeader or Write
    committedBy,    \* the call that made the sink commit its header
    filtersRun,     \* whether ServeHTTP reached its filter loop
    conc            \* the requests served concurrently (SpecConc only)

vars == <<pc, config, sf, newErr, rw, w, handlerWrites, ops,
          hijackErr, hijackCalls, handlerSet, handlerHeader, firstStatus,
          committedBy, filtersRun, conc>>

\* The plaintexts the handler produces.
Plains == {<<"a">>, <<"a", "b">>}

\* What the handler may pass to Write: plaintexts and gzip streams of them.
Chunks == {<<>>} \cup Plains \cup {GzipEncode(p) : p \in Plains}

Statuses == {StatusOK, StatusNotFound}

InitWith(configs) ==
    /\ pc = "new"
    /\ config \in configs
    /\ sf = NoHandler
    /\ newErr = "nil"
    /\ rw = NewResponseWriter(FALSE)
    /\ \E canHijack \in BOOLEAN, canFlush \in BOOLEAN :
           w = NewSink(canHijack, canFlush)
    /\ handlerWrites = <<>>
    /\ ops = 0
    /\ hijackErr = "none"
    /\ hijackCalls = 0
    /\ handlerSet = {}
    /\ handlerHeader = EmptyHeader
    /\ firstStatus = NoStatus
    /\ committedBy = "none"
    /\ filtersRun = FALSE

\* ---------------------------------------------------- concurrent requests
Requests == 1..NumRequests

\* A handler as the sequence of calls it makes on its capture writer.
SetOp(name, value) ==
    [op |-> "Set", name |-> name, value |-> value, status |-> NoStatus, p |-> <<>>]
WriteHeaderOp(status) ==
    [op |-> "WriteHeader", name |-> "", value |-> "", status |-> status, p |-> <<>>]
WriteOp(p) ==
    [op |-> "Write", name |-> "", value |-> "", status |-> NoStatus, p |-> p]
FlushOp ==
    [op |-> "Flush", name |-> "", value |-> "", status |-> NoStatus, p |-> <<>>]
HijackOp ==
    [op |-> "Hijack", name |-> "", value |-> "", status |-> NoStatus, p |-> <<>>]

Scripts ==
    { <<SetOp("Content-Encoding", "gzip"), WriteOp(GzipEncode(<<"a">>))>>,
      <<WriteOp(<<"a", "b">>)>>,
      <<SetOp("Last-Modified", "Thu, 02 Jun 2016 06:01:08 GMT"),
        WriteHeaderOp(StatusNotFound), WriteOp(<<"a">>)>>,
      <<SetOp("Content-Encoding", "br"), FlushOp, WriteOp(<<"a", "b">>)>>,
      <<HijackOp>> }

\* One call of the handler on the pair st = [rw, w].
ApplyOp(st, o) ==
    IF o.op = "Set"
    THEN [rw |-> st.rw, w |-> [st.w EXCEPT !.header[o.name] = o.value]]
    ELSE IF o.op = "WriteHeader" THEN WriteHeader(st.rw, st.w, o.status)
    ELSE IF o.op = "Write" THEN Write(st.rw, st.w, o.p)
    ELSE IF o.op = "Flush" THEN Flush(st.rw, st.w)
    ELSE LET h == Hijack(st.rw, st.w) IN [rw |-> h.rw, w |-> h.w]

\* A capture writer shared by all requests, as if kept in the subfilter.
RwSlotShared(i) ==
    1

\* Where request i keeps its capture writer: ServeHTTP allocates a fresh
\* responseWriter on every call, so each request has its own.
RwSlot(i) ==
    i

\* No request in flight.
NoRequests ==
    [ script |-> [i \in Requests |-> <<>>],
      pos    |-> [i \in Requests |-> 0],
      pcr    |-> [i \in Requests |-> "idle"],
      rws    |-> [i \in Requests |-> NewResponseWriter(FALSE)],
      ws     |-> [i \in Requests |-> NewSink(FALSE, FALSE)] ]

Init == InitWith(ServeConfigs) /\ conc = NoRequests

\* The single request of Spec.
request_local == <<rw, w, handlerWrites, ops, hijackErr, hijackCalls,
                   handlerSet, handlerHeader, firstStatus, committedBy,
                   filtersRun>>

request == <<rw, w, handlerWrites, ops, hijackErr, hijackCalls, handlerSet,
             handlerHeader, firstStatus, committedBy, filtersRun, conc>>

\* New(ctx, next, config, name)
New ==
    /\ pc = "new"
    /\ LET res == NewResult(config)
       IN  /\ sf' = res.sf
           /\ newErr' = res.err
           /\ pc' = IF res.err = "nil" THEN "installed" ELSE "failed"
    /\ UNCHANGED <<config, request>>

\* ServeHTTP up to the call of s.next.ServeHTTP(rw, r).
ServeHTTPBegin ==
    /\ pc = "installed"
    /\ rw' = NewResponseWriter(sf.lastModified)
    /\ pc' = "handler"
    /\ UNCHANGED <<config, sf, newErr, w, handlerWrites, ops,
                   hijackErr, hijackCalls, handlerSet, handlerHeader,
                   firstStatus, committedBy, filtersRun, conc>>

\* Records the call under which the sink's header went out.
CommitBy(call) ==
    committedBy' = IF ~w.wroteHeader /\ w'.wroteHeader THEN call ELSE committedBy

HandlerCall ==
    /\ pc = "handler"
    /\ ops < MaxOps
    /\ ops' = ops + 1
    /\ UNCHANGED <<pc, config, sf, newErr, filtersRun, conc>>

\* The handler sets a header: rw.Header() is the sink's header map.
HandlerSetHeader ==
    /\ HandlerCall
    /\ \E name \in HeaderNames : \E v \in HeaderValues(name) :
           /\ w' = [w EXCEPT !.header[name] = v]
           /\ handlerSet' = IF ~w.wroteHeader /\ ~rw.wroteHeader /\ ~w.hijacked
                             THEN handlerSet \cup {name} ELSE handlerSet
           /\ handlerHeader' = [handlerHeader EXCEPT ![name] = v]
    /\ UNCHANGED <<rw, handlerWrites, hijackErr, hijackCalls, firstStatus,
                   committedBy>>

HandlerWriteHeader ==
    /\ HandlerCall
    /\ \E statusCode \in Statuses :
           LET r == WriteHeader(rw, w, statusCode)
           IN  /\ rw' = r.rw
               /\ w' = r.w
               /\ firstStatus' = IF firstStatus = NoStatus THEN statusCode
                                  ELSE firstStatus
    /\ CommitBy("WriteHeader")
    /\ UNCHANGED <<handlerWrites, hijackErr, hijackCalls, handlerSet,
                   handlerHeader>>

HandlerWrite ==
    /\ HandlerCall
    /\ \E p \in Chunks :
           LET r == Write(rw, w, p)
           IN  /\ rw' = r.rw
               /\ w' = r.w
               /\ handlerWrites' = Append(handlerWrites, p)
    /\ firstStatus' = IF firstStatus = NoStatus THEN StatusOK ELSE firstStatus
    /\ CommitBy("Write")
    /\ UNCHANGED <<hijackErr, hijackCalls, handlerSet, handlerHeader>>

HandlerFlush ==
    /\ HandlerCall
    /\ LET r == Flush(rw, w) IN rw' = r.rw /\ w' = r.w
    /\ CommitBy("Flush")
    /\ UNCHANGED <<handlerWrites, hijackErr, hijackCalls, handlerSet,
                   handlerHeader, firstStatus>>

HandlerHijack ==
    /\ HandlerCall
    /\ LET r == Hijack(rw, w)
       IN  rw' = r.rw /\ w' = r.w /\ hijackErr' = r.err
    /\ hijackCalls' = hijackCalls + 1
    /\ UNCHANGED <<handlerWrites, handlerSet, handlerHeader, firstStatus,
                   committedBy>>

\* s.next.ServeHTTP(rw, r) returns and ServeHTTP runs to its end.
ServeHTTPFinish ==
    /\ pc = "handler"
    /\ LET r == ServeHTTPAfterNext(sf, rw, w)
       IN  rw' = r.rw /\ w' = r.w /\ filtersRun' = r.filtersRun
    /\ pc' = "done"
    /\ CommitBy("ServeHTTP")
    /\ UNCHANGED <<config, sf, newErr, handlerWrites, ops, hijackErr,
                   hijackCalls, handlerSet, handlerHeader, firstStatus, conc>>

Next ==
    \/ New
    \/ ServeHTTPBegin
    \/ HandlerSetHeader
    \/ HandlerWriteHeader
    \/ HandlerWrite
    \/ HandlerFlush
    \/ HandlerHijack
    \/ ServeHTTPFinish

Spec == Init /\ [][Next]_vars

\* Construction alone, over every configuration.
InitNew == InitWith(Configs) /\ conc = NoRequests

NextNew == New

SpecNew == InitNew /\ [][NextNew]_vars

\* One instance serving NumRequests requests at once, each with its own sink
\* (of the capabilities of w) and its own handler script.
InitConc ==
    /\ InitWith(ServeConfigs)
    /\ \E scripts \in [Requests -> Scripts] :
           conc = [ script |-> scripts,
                    pos    |-> [i \in Requests |-> 0],
                    pcr    |-> [i \in Requests |-> "idle"],
                    rws    |-> [i \in Requests |-> NewResponseWriter(FALSE)],
                    ws     |-> [i \in Requests |-> w] ]

\* Request i enters ServeHTTP: rw := &responseWriter{...}
ConcBegin(i) ==
    /\ pc = "installed"
    /\ conc.pcr[i] = "idle"
    /\ conc' = [conc EXCEPT !.pcr[i] = "handler",
                            !.rws[RwSlot(i)] = NewResponseWriter(sf.lastModified)]
    /\ UNCHANGED <<pc, config, sf, newErr, request_local>>

\* The handler of request i makes its next call on its capture writer.
ConcHandlerStep(i) ==
    /\ conc.pcr[i] = "handler"
    /\ conc.pos[i] < Len(conc.script[i])
    /\ LET st == ApplyOp([rw |-> conc.rws[RwSlot(i)], w |-> conc.ws[i]],
                         conc.script[i][conc.pos[i] + 1])
       IN  conc' = [conc EXCEPT !.pos[i] = conc.pos[i] + 1,
                                !.rws[RwSlot(i)] = st.rw,
                                !.ws[i] = st.w]
    /\ UNCHANGED <<pc, config, sf, newErr, request_local>>

\* The handler of request i returns and ServeHTTP runs to its end.
ConcFinish(i) ==
    /\ conc.pcr[i] = "handler"
    /\ conc.pos[i] = Len(conc.script[i])
    /\ LET r == ServeHTTPAfterNext(sf, conc.rws[RwSlot(i)], conc.ws[i])
       IN  conc' = [conc EXCEPT !.pcr[i] = "done",
                                !.rws[RwSlot(i)] = r.rw,
                                !.ws[i] = r.w]
    /\ UNCHANGED <<pc, config, sf, newErr, request_local>>

NextConc ==
    \/ New
    \/ \E i \in Requests : ConcBegin(i)
    \/ \E i \in Requests : ConcHandlerStep(i)
    \/ \E i \in Requests : ConcFinish(i)

SpecConc == InitConc /\ [][NextConc]_vars

\* ---------------------------------------------------------------- claims
Done == pc = "done"

\* The bytes the handler passed to Write, concatenated in call order.
Captured == Concat(handlerWrites)

\* The Content-Encoding ServeHTTP reads once the handler has returned.
DeclaredEncoding == HeaderGet(w.header, "Content-Encoding")

Compiled(f) == [regex |-> f.Regex, replacement |-> f.Replacement]

\* The chain as a fold: the n-th filter applied to the result of the first
\* n - 1 filters.
RECURSIVE FoldFilters(_, _, _)
FoldFilters(filters, b, n) ==
    IF n = 0 THEN b ELSE ReplaceAll(filters[n], FoldFilters(filters, b, n - 1))

\* C1: when the handler declares Content-Encoding gzip and writes a valid gzip
\* stream of plaintext p, the body written to the sink is a gzip stream whose
\* decompression is the filter chain applied to p.
C1_GzipRoundTrip ==
    \A p \in Plains :
        (Done /\ DeclaredEncoding = contentEncodingGzip
              /\ w.committed["Content-Encoding"] = contentEncodingGzip
              /\ Captured = GzipEncode(p))
        => /\ GzipDecodeOK(w.body)
           /\ GzipPayload(w.body) = FoldFilters(sf.filters, p, Len(sf.filters))

\* C2: the headers committed to the real sink never contain Content-Length,
\* whatever calls the handler made.
C2_NoContentLength ==
    w.wroteHeader => w.committed["Content-Length"] = Absent

\* C3: when the handler set Last-Modified on a response not yet committed, the
\* committed headers contain Last-Modified iff lastModified is configured.
C3_LastModifiedIff ==
    (w.wroteHeader /\ "Last-Modified" \in handlerSet)
    => ((w.committed["Last-Modified"] # Absent) <=> sf.lastModified)

\* C4: with a Content-Encoding other than empty, identity or gzip, the body
\* written to the sink is the concatenation of the handler's writes, no filter
\* is applied and the gzip arm's bookkeeping is not reached.
C4_Passthrough ==
    (Done /\ DeclaredEncoding \notin {"", "identity", contentEncodingGzip})
    => /\ w.body = Captured
       /\ ~filtersRun
       /\ rw.encoding = ""

\* A passthrough response whose body the chain would have changed.
C4_Witness ==
    /\ Done
    /\ DeclaredEncoding = "br"
    /\ Captured = <<"a", "b">>
    /\ sf.filters = <<Compiled(FooBar)>>
    /\ w.body = <<"a", "b">>

\* C5: with an empty or identity encoding the body written to the sink is the
\* left fold of the chain over the captured body; for two filters it is the
\* second applied to the result of the first.
C5_ChainFold ==
    (Done /\ DeclaredEncoding \in {"", "identity"})
    => /\ w.body = FoldFilters(sf.filters, Captured, Len(sf.filters))
       /\ Len(sf.filters) = 2
            => w.body = ReplaceAll(sf.filters[2], ReplaceAll(sf.filters[1], Captured))

\* The second filter rewrites the text the first one introduced.
C5_Witness ==
    /\ Done
    /\ DeclaredEncoding = "identity"
    /\ sf.filters = <<Compiled(FooBar), Compiled(BarFoo)>>
    /\ Captured = <<"a", "b">>
    /\ w.body = <<"a", "a">>

NoFilterMatches(b) ==
    \A i \in 1..Len(sf.filters) : ~Matches(sf.filters[i].regex, b)

\* C6: when no filter pattern matches the captured body, the body written to
\* the sink is the concatenation of the handler's writes.  Stated for the
\* responses that get a body (a gzip body that fails to decode gets none), and
\* with no match in the decoded plaintext either.
C6_NoMatchUnchanged ==
    (/\ Done
     /\ NoFilterMatches(Captured)
     /\ DeclaredEncoding = contentEncodingGzip
          => GzipDecodeOK(Captured) /\ NoFilterMatches(GzipPayload(Captured)))
    => w.body = Captured

CompilesSpec(f) == RegexpCompileOK(f.Regex)

\* C7: New fails iff no configured pattern compiles; otherwise the chain is
\* the compilable filters in their configured order.
C7_New ==
    pc # "new" =>
        LET valid == SelectSeq(config.Filters, CompilesSpec)
        IN  /\ (newErr # "nil") <=> (valid = <<>>)
            /\ (newErr # "nil") <=> (pc = "failed")
            /\ newErr # "nil" => sf = NoHandler
            /\ newErr = "nil" =>
                 sf.filters = [i \in 1..Len(valid) |-> Compiled(valid[i])]

\* An invalid pattern dropped ahead of a valid one.
C7_Witness ==
    /\ pc = "installed"
    /\ config.Filters = <<BadOne, BarFoo>>
    /\ newErr = "nil"
    /\ sf.filters = <<Compiled(BarFoo)>>

\* C8: after a successful hijack through the capture writer, ServeHTTP applies
\* no filter and issues no Write on the real sink.
C8_HijackBypass ==
    (Done /\ w.hijacked) => (~filtersRun /\ w.writeCalls = 0)

\* C9: Hijack on a sink without the capability returns the error and leaves
\* the capture writer and the sink as they were; otherwise the sink's Hijack
\* is called and its result returned.
C9_Hijack ==
    [][hijackCalls' = hijackCalls + 1 =>
         IF ~w.canHijack
         THEN /\ hijackErr' = NotHijackerErr
              /\ rw' = rw
              /\ w' = w
         ELSE /\ hijackErr' = (IF w.hijacked
                               THEN "http: connection has been hijacked"
                               ELSE "nil")
              /\ rw' = rw
              /\ w' = [w EXCEPT !.hijacked = TRUE]]_vars

\* A refused hijack on a capture writer that already holds a response.
C9_Witness ==
    /\ hijackCalls = 1
    /\ ~w.canHijack
    /\ hijackErr = NotHijackerErr
    /\ ~w.hijacked
    /\ rw.buffer = <<"a">>
    /\ rw.wroteHeader

\* C10: when the declared encoding is gzip and the captured body fails to
\* decode, ServeHTTP writes no body byte to the sink.
C10_DecodeFailureNoBody ==
    (Done /\ DeclaredEncoding = contentEncodingGzip /\ ~GzipDecodeOK(Captured))
    => (w.body = <<>> /\ w.writeCalls = 0 /\ ~filtersRun)

\* A stream whose header is read but whose trailer is wrong: ReadAll fails.
C10_Witness ==
    /\ Done
    /\ DeclaredEncoding = contentEncodingGzip
    /\ Captured = GzipEncode(<<"a">>) \o <<"a">>
    /\ GzipNewReaderOK(Captured)
    /\ w.body = <<>>

\* C11: WriteHeader on the capture writer does not forward to the real sink:
\* while the downstream handler runs the sink receives no WriteHeader.
C11_NoForwardDuringHandler ==
    pc = "handler" => w.writeHeaderCalls = 0

\* C12: a response that is not hijacked has its status and headers committed
\* once, after the handler returned and the final body is determined: not
\* while the handler runs, and always by the time ServeHTTP returns.
C12_CommitOnceAtEnd ==
    /\ pc = "handler" => ~w.wroteHeader
    /\ (Done /\ ~w.hijacked) => (w.wroteHeader /\ w.writeHeaderCalls <= 1)

\* C13: Write on the capture writer only fills the capture buffer: until the
\* handler has returned the real sink has received no Write and no body byte,
\* Flush calls included, and the buffer holds exactly what the handler wrote.
C13_NoBodyBeforeReturn ==
    /\ pc # "done" => (w.body = <<>> /\ w.writeCalls = 0)
    /\ pc = "handler" => rw.buffer = Captured

\* Two writes after a Flush that reached the sink, the handler still running.
C13_Witness ==
    /\ pc = "handler"
    /\ committedBy = "Flush"
    /\ handlerWrites = << <<"a">>, <<"a", "b">> >>
    /\ rw.buffer = <<"a", "a", "b">>
    /\ w.body = <<>>

\* How the encoding gate treats a Content-Encoding value.
GateClass(ce) ==
    IF ce \in {"", "identity"} THEN "as-is"
    ELSE IF ce = contentEncodingGzip THEN "gunzip"
    ELSE "passthrough"

\* C14: the body is treated according to the Content-Encoding that was
\* committed to the client: filtered as-is, gunzipped (or dropped when it does
\* not decode), or passed through unfiltered.
C14_GateUsesSnapshot ==
    (Done /\ w.wroteHeader) =>
        LET class == GateClass(HeaderGet(w.committed, "Content-Encoding"))
        IN  /\ class = "as-is" => (filtersRun /\ rw.encoding = "")
            /\ class = "gunzip" =>
                 \/ filtersRun /\ rw.encoding = contentEncodingGzip
                 \/ ~filtersRun /\ w.writeCalls = 0 /\ ~GzipDecodeOK(rw.buffer)
            /\ class = "passthrough" => (~filtersRun /\ w.body = rw.buffer)

\* C15: the status committed for a response is the status of the handler's
\* first call that fixes one: the argument of WriteHeader, or 200 for a Write.
C15_StatusCommitted ==
    (w.wroteHeader /\ firstStatus # NoStatus) => w.status = firstStatus

\* C15 as amended: the same, unless a Flush forwarded to the sink had already
\* sent the header, with 200, before that call.  A header committed by Write
\* or Flush carries 200, and no later call changes the committed status.
C15_StatusUnlessFlushed ==
    /\ (w.wroteHeader /\ firstStatus # NoStatus /\ committedBy # "Flush")
         => (w.status = firstStatus /\ committedBy \in {"WriteHeader", "Write"})
    /\ committedBy = "Write" => (w.status = StatusOK /\ firstStatus = StatusOK)
    /\ committedBy = "Flush" => (w.status = StatusOK /\ w.canFlush)
    /\ committedBy = "WriteHeader" => rw.wroteHeader

\* A Write after an explicit WriteHeader(404): the status stays 404.
C15_Witness ==
    /\ committedBy = "WriteHeader"
    /\ firstStatus = StatusNotFound
    /\ w.status = StatusNotFound
    /\ handlerWrites = << <<"a">> >>
    /\ w.writeHeaderCalls = 1

\* C16: the middleware changes no header except by deleting Content-Length
\* and, when lastModified is false, Last-Modified (both in WriteHeader): every
\* header holds the value the handler gave it or was deleted by that policy,
\* Content-Encoding always holds the handler's value, and a Content-Encoding
\* is committed exactly when the handler set one before the commit.
C16_OnlyPolicyHeaderMutations ==
    /\ \A n \in HeaderNames :
         \/ w.header[n] = handlerHeader[n]
         \/ /\ w.header[n] = Absent
            /\ rw.wroteHeader
            /\ n = "Content-Length" \/ (n = "Last-Modified" /\ ~sf.lastModified)
    /\ w.header["Content-Encoding"] = handlerHeader["Content-Encoding"]
    /\ w.wroteHeader =>
         ((w.committed["Content-Encoding"] # Absent) <=> ("Content-Encoding" \in handlerSet))
    /\ committedBy = "ServeHTTP" =>
         w.committed["Content-Encoding"] = handlerHeader["Content-Encoding"]

\* A gzip response served to its end: Content-Length is gone from the header
\* map, Content-Encoding is still the handler's.
C16_Witness ==
    /\ Done
    /\ rw.encoding = contentEncodingGzip
    /\ handlerHeader["Content-Length"] = "2"
    /\ w.header["Content-Length"] = Absent
    /\ w.header["Content-Encoding"] = contentEncodingGzip
    /\ w.committed["Content-Encoding"] = contentEncodingGzip

\* ------------------------------------------------------------------ C17
\* The handler of a request run on its own, without any other request: the
\* pair [rw, w] after the first n calls of its script.
RECURSIVE RunScript(_, _, _)
RunScript(st, script, n) ==
    IF n = 0 THEN st
    ELSE ApplyOp(RunScript(st, script, n - 1), script[n])

AloneStart == [rw |-> NewResponseWriter(sf.lastModified), w |-> w]

ServedAlone(script) ==
    LET st == RunScript(AloneStart, script, Len(script))
        r  == ServeHTTPAfterNext(sf, st.rw, st.w)
    IN  [rw |-> r.rw, w |-> r.w]

\* C17: requests served concurrently by one instance do not interfere. The
\* instance is never modified after New, and every request's capture writer
\* and response (headers, status, body) are at each moment what they would
\* be had the request been served alone.
C17_RequestsIsolated ==
    /\ pc = "installed" => sf = NewResult(config).sf
    /\ \A i \in Requests :
          /\ conc.pcr[i] = "handler" =>
                [rw |-> conc.rws[i], w |-> conc.ws[i]]
                   = RunScript(AloneStart, conc.script[i], conc.pos[i])
          /\ conc.pcr[i] = "done" =>
                [rw |-> conc.rws[i], w |-> conc.ws[i]]
                   = ServedAlone(conc.script[i])

\* Two requests are inside their handlers at once, one capturing a gzip
\* body and one a plain body, and the plain one has been served while the
\* other still runs.
C17_Witness ==
    /\ config.Filters = <<FooBar>>
    /\ conc.pcr[1] = "handler"
    /\ conc.rws[1].buffer = GzipEncode(<<"a">>)
    /\ conc.pcr[2] = "done"
    /\ conc.script[2] = <<WriteOp(<<"a", "b">>)>>
    /\ conc.ws[2].body = <<"b", "b">>
    /\ conc.ws[1].body = <<>>

\* ------------------------------------------------------------------ C18
\* The way ServeHTTP ended: with the passthrough copy, with the write of the
\* rewritten body, or with nothing after a failed decode.
Ending ==
    { e \in {"passthrough", "rewritten", "abort"} :
        \/ e = "passthrough" /\ GateClass(DeclaredEncoding) = "passthrough"
                             /\ ~filtersRun
        \/ e = "rewritten" /\ filtersRun /\ w.writeCalls = 1
        \/ e = "abort" /\ GateClass(DeclaredEncoding) = "gunzip"
                       /\ ~filtersRun /\ w.writeCalls = 0 }

\* C18: ServeHTTP calls w.Write at most once per request; it ends in exactly
\* one of the three ways, and a write that failed is not repeated.
C18_AtMostOneBodyWrite ==
    /\ w.writeCalls <= 1
    /\ Done => Cardinality(Ending) = 1
    /\ w.writeErr => (Done /\ w.writeCalls = 1 /\ Len(w.body) <= Len(Captured))

\* The final write of a rewritten body failed on a hijacked connection and
\* was the only one.
C18_Witness ==
    /\ Done
    /\ w.writeErr
    /\ w.writeCalls = 1
    /\ filtersRun
    /\ Captured = <<"a", "b">>
    /\ w.body = <<"b", "b">>

\* ------------------------------------------------------------------ C19
\* C19 as stated: once ServeHTTP has returned, w.Write was called on the
\* sink unless the body was declared gzip and did not decode.
C19_EndsWithWrite ==
    (Done /\ ~(GateClass(DeclaredEncoding) = "gunzip" /\ ~GzipDecodeOK(Captured)))
        => w.writeCalls = 1

\* C19, amended: ServeHTTP ends with one w.Write unless gzip decoding failed
\* or the encoding is an unsupported one and nothing was captured (the copy
\* of an empty buffer writes nothing).  With an identity or absent encoding
\* an empty body is still written, and that write commits the response when
\* the connection is still the server's.  While the handler runs, the rest
\* of ServeHTTP has a result for the state the handler would leave on its
\* return.
C19_EndsWithWriteUnlessEmptyCopy ==
    /\ pc = "handler" =>
           LET r == ServeHTTPAfterNext(sf, rw, w)
           IN  r.filtersRun \in BOOLEAN /\ r.w.writeCalls \in {0, 1}
    /\ Done =>
           /\ w.writeCalls = 1 <=>
                 /\ ~(GateClass(DeclaredEncoding) = "gunzip" /\ ~GzipDecodeOK(Captured))
                 /\ ~(GateClass(DeclaredEncoding) = "passthrough" /\ Captured = <<>>)
           /\ (GateClass(DeclaredEncoding) = "as-is" /\ ~w.hijacked)
                 => (w.writeCalls = 1 /\ w.wroteHeader)
           /\ committedBy = "ServeHTTP" => w.writeCalls = 1

\* The handler returned without a single call; the empty body was written
\* and that write committed the response with status 200.
C19_Witness ==
    /\ Done
    /\ ops = 0
    /\ w.writeCalls = 1
    /\ w.body = <<>>
    /\ committedBy = "ServeHTTP"
    /\ w.status = StatusOK

====
